---- MODULE Spec2Model ----
(***************************************************************************)
(* Model of the race-strategy core of f1-strategy-simulator:               *)
(*   models/race_state.py  RaceState (update, is_valid)                    *)
(*   models/tire_model.py  TireModel (calculate_tire_performance, ...)     *)
(*   models/strategy.py    StrategySimulator (generator, evaluator,        *)
(*                         thread-pool orchestrator)                       *)
(*                                                                         *)
(* Numbers.  Python floats are modelled as exact rationals kept as integer *)
(* numerators over a fixed denominator:                                    *)
(*   - degradations and grip: millionths (Scale); grip is kept as          *)
(*     3 * Scale * grip_level so that the division by 3.0 stays exact;     *)
(*   - track abrasiveness: tenths (AbrUnit);                               *)
(*   - a fuel load is a pair <<num, den>>;                                 *)
(*   - the total_time of an evaluated strategy: units of                   *)
(*     1 / (Scale * total_laps) seconds (every entry of one returned list  *)
(*     shares the call's total_laps, so comparing numerators compares      *)
(*     times); the total_time of a demo strategy: units of 1 / Scale.      *)
(* Floating-point rounding is not modelled.                                *)
(***************************************************************************)
EXTENDS Integers, Sequences, FiniteSets, TLC

VARIABLES
    race_state,             \* the RaceState object handed to the simulator
    pc,                     \* position of the thread inside simulate_strategies
    args,                   \* arguments of the call in progress
    strategy_combinations,  \* the generated candidates (strategy.py:82)
    future_state,           \* per submitted future: "pending" | "running" | "finished"
    future_result,          \* per submitted future: its result once finished (None or a RaceStrategy)
    completed,              \* results of finished futures as_completed has not yielded yet
    strategies,             \* the local list `strategies` (strategy.py:90)
    outcome,                \* what the call handed to its caller
    tire_model,             \* the parameter tables of the simulator's TireModel object
    gen_call,               \* one _generate_random_strategy call: arguments and result
    tire_call,              \* one calculate_tire_performance call: arguments and result
    stint_call,             \* one predict_stint_performance call: arguments and result
    lookup_call,            \* one compound-parameter lookup: argument and result
    comb_call,              \* one _generate_strategy_combinations call: arguments and result
    eval_call,              \* one _simulate_single_strategy call: arguments and result
    compare_call,           \* one analyze_strategy_comparison call: argument and result
    optimal_call,           \* one get_optimal_stint_length call: arguments and result
    conf_call               \* one _calculate_strategy_confidence call: arguments and result

vars == <<race_state, pc, args, strategy_combinations, future_state, future_result,
          completed, strategies, outcome, tire_model, gen_call, tire_call, stint_call,
          lookup_call, comb_call, eval_call, compare_call, optimal_call, conf_call>>

simVars == <<race_state, pc, args, strategy_combinations, future_state, future_result,
             completed, strategies, outcome, tire_model>>

callVars == <<gen_call, tire_call, stint_call, lookup_call,
              comb_call, eval_call, compare_call, optimal_call, conf_call>>

\* The calls of the later sections, left alone by the earlier ones.
otherCalls == <<comb_call, eval_call, compare_call, optimal_call, conf_call>>

-----------------------------------------------------------------------------
(* Bounds of the explored input space.                                     *)

\* simulate_strategies: num_simulations, max_stops, the lap counters of the
\* race state, and the period of the random source.
MaxSims == 2
MaxStops == 1
MaxLap == 3
RngLen == 2
\* _generate_random_strategy alone: num_stops, the lap counters, the period of
\* the random source.
GenMaxStops == 2
GenMaxLap == 9
GenRngLen == 3
\* calculate_tire_performance alone: age_laps.
MaxAge == 40
\* _generate_strategy_combinations alone: max_stops and the small values of
\* num_simulations.
CombMaxStops == 2
CombMaxSims == 4
\* _simulate_single_strategy alone: the race length and the stops of the
\* candidates.
EvalLaps == 6
EvalMaxStops == 2
\* _calculate_strategy_confidence alone: the race length and the stops of the
\* candidates.
ConfLaps == 12
ConfMaxStops == 3

-----------------------------------------------------------------------------
(* Python values.                                                          *)

\* An Optional value is None or the one-element tuple of the value; a call
\* that can raise yields a record whose field `raised` names the exception.
None == <<>>
Some(x) == <<x>>
NoExc == "no exception"

\* A key a dict does not hold.
Absent == <<>>

Max(a, b) == IF a >= b THEN a ELSE b
Min(a, b) == IF a <= b THEN a ELSE b

\* int(x) of Python for the rational x = num / den, den > 0: truncation toward zero.
TruncDiv(num, den) == IF num >= 0 THEN num \div den ELSE -((-num) \div den)

-----------------------------------------------------------------------------
(* models/race_state.py                                                    *)

\* WeatherData(): the dataclass and its defaults.
WeatherData(track_temperature, rainfall) ==
    [air_temperature |-> None, track_temperature |-> track_temperature,
     humidity |-> None, wind_speed |-> None, wind_direction |-> None,
     rainfall |-> rainfall, pressure |-> None]

\* RaceState.__init__ (the fields the core reads or is_valid tests).
NewRaceState ==
    [current_lap |-> 0, total_laps |-> 0, drivers |-> {},
     data_quality |-> [positions |-> FALSE, timing |-> FALSE,
                       weather |-> FALSE, tire_data |-> FALSE],
     weather_data |-> WeatherData(None, FALSE)]

\* A dict is a record whose missing keys hold Absent and whose other keys
\* hold Some(value).  dict.get(key) is None for a missing key;
\* dict.get(key, default) is the default.
DictGet(d, key) == d[key]
DictGetDefault(d, key, default) == IF d[key] = Absent THEN default ELSE d[key][1]

\* A dict is falsy when it is empty.
DictTruthy(d) == \E k \in DOMAIN d : d[k] # Absent

\* RaceState._update_positions: a driver is created for every entry that
\* carries a truthy driver_number.
UpdatePositions(rs, positions_data) ==
    [rs EXCEPT !.drivers =
        @ \cup {positions_data[i].driver_number : i \in
                  {j \in 1..Len(positions_data) : positions_data[j].driver_number # 0}}]

\* RaceState._update_weather: a fresh WeatherData built with dict.get.
UpdateWeather(rs, weather) ==
    [rs EXCEPT !.weather_data =
        WeatherData(DictGet(weather, "track_temperature"),
                    DictGetDefault(weather, "rainfall", FALSE))]

\* RaceState.update, key by key (race_state.py:96-99, 102-104, 116-118).
UpdateLaps(rs, live_data) ==
    [rs EXCEPT !.current_lap = IF live_data.current_lap # Absent
                               THEN live_data.current_lap[1] ELSE @,
               !.total_laps = IF live_data.total_laps # Absent
                              THEN live_data.total_laps[1] ELSE @]

UpdatePositionsKey(rs, live_data) ==
    IF live_data.positions # Absent /\ Len(live_data.positions[1]) > 0
    THEN [UpdatePositions(rs, live_data.positions[1]) EXCEPT !.data_quality.positions = TRUE]
    ELSE rs

UpdateWeatherKey(rs, live_data) ==
    IF live_data.weather # Absent /\ DictTruthy(live_data.weather[1])
    THEN [UpdateWeather(rs, live_data.weather[1]) EXCEPT !.data_quality.weather = TRUE]
    ELSE rs

\* RaceState.update, for the keys current_lap, total_laps, positions, weather.
UpdateRaceState(rs, live_data) ==
    UpdateWeatherKey(UpdatePositionsKey(UpdateLaps(rs, live_data), live_data), live_data)

\* RaceState.is_valid.
IsValid(rs) ==
    /\ rs.current_lap > 0
    /\ rs.total_laps > 0
    /\ Cardinality(rs.drivers) > 0
    /\ \E k \in DOMAIN rs.data_quality : rs.data_quality[k]

-----------------------------------------------------------------------------
(* models/tire_model.py                                                    *)

\* Denominators: abrasiveness in tenths, degradation rates in hundredths,
\* temperature sensitivities in thousandths; their product is the common scale.
AbrUnit == 2 * 5
Scale == AbrUnit * 100 * 1000

SOFT == "soft"
MEDIUM == "medium"
HARD == "hard"
INTERMEDIATE == "intermediate"
WET == "wet"

TireCompound == {SOFT, MEDIUM, HARD, INTERMEDIATE, WET}

\* base_degradation_rates, in hundredths of a second per lap.
base_degradation_rates ==
    [c \in TireCompound |->
        CASE c = SOFT -> 8 [] c = MEDIUM -> 5 [] c = HARD -> 3
          [] c = INTERMEDIATE -> 6 [] c = WET -> 7]

cliff_points ==
    [c \in TireCompound |->
        CASE c = SOFT -> 15 [] c = MEDIUM -> 25 [] c = HARD -> 35
          [] c = INTERMEDIATE -> 20 [] c = WET -> 18]

\* base_pace_delta, in millionths of a second.
base_pace_delta ==
    [c \in TireCompound |->
        CASE c = SOFT -> -800000 [] c = MEDIUM -> 0 [] c = HARD -> 600000
          [] c = INTERMEDIATE -> 1500000 [] c = WET -> 2000000]

\* temp_sensitivity, in thousandths per degree.
temp_sensitivity ==
    [c \in TireCompound |->
        CASE c = SOFT -> 20 [] c = MEDIUM -> 15 [] c = HARD -> 10
          [] c = INTERMEDIATE -> 25 [] c = WET -> 30]

\* fuel_burn_gain_per_lap = 0.035, in thousandths of a second.
fuel_burn_gain_per_lap == 35

\* TireModel.__init__: the object's parameter tables.
NewTireModel ==
    [base_degradation_rates |-> base_degradation_rates,
     cliff_points |-> cliff_points,
     base_pace_delta |-> base_pace_delta,
     temp_sensitivity |-> temp_sensitivity,
     fuel_burn_gain_per_lap |-> fuel_burn_gain_per_lap]

\* Python str values are sequences of characters.  TireCompound's members
\* carry these values (tire_model.py:6-11); they are also the keys of
\* Config.TIRE_COMPOUNDS (config.py:30-61).
Spelling ==
    [c \in TireCompound |->
        CASE c = SOFT -> <<"s", "o", "f", "t">>
          [] c = MEDIUM -> <<"m", "e", "d", "i", "u", "m">>
          [] c = HARD -> <<"h", "a", "r", "d">>
          [] c = INTERMEDIATE -> <<"i", "n", "t", "e", "r", "m", "e", "d", "i", "a", "t", "e">>
          [] c = WET -> <<"w", "e", "t">>]

LowerCase == <<"a", "b", "c", "d", "e", "f", "g", "h", "i", "j", "k", "l", "m",
               "n", "o", "p", "q", "r", "s", "t", "u", "v", "w", "x", "y", "z">>
UpperCase == <<"A", "B", "C", "D", "E", "F", "G", "H", "I", "J", "K", "L", "M",
               "N", "O", "P", "Q", "R", "S", "T", "U", "V", "W", "X", "Y", "Z">>

\* str.lower and str.upper, character by character.
LowerChar(ch) ==
    IF \E i \in DOMAIN UpperCase : UpperCase[i] = ch
    THEN LowerCase[CHOOSE i \in DOMAIN UpperCase : UpperCase[i] = ch] ELSE ch
UpperChar(ch) ==
    IF \E i \in DOMAIN LowerCase : LowerCase[i] = ch
    THEN UpperCase[CHOOSE i \in DOMAIN LowerCase : LowerCase[i] = ch] ELSE ch
Lower(str) == [i \in DOMAIN str |-> LowerChar(str[i])]
Upper(str) == [i \in DOMAIN str |-> UpperChar(str[i])]

\* A value passed as a compound: a member of TireCompound or a plain str.
MemberKey(c) == [type |-> "TireCompound", name |-> Spelling[c]]
StrKey(str) == [type |-> "str", name |-> str]

\* self.<table>[compound] (tire_model.py:98, 101, 116, 122): the tables are
\* dicts keyed by the members of TireCompound, and a str never equals a
\* member; a miss raises KeyError.
TableLookup(table, key) ==
    IF key.type = "TireCompound"
    THEN [raised |-> NoExc,
          value |-> Some(table[CHOOSE c \in TireCompound : Spelling[c] = key.name])]
    ELSE [raised |-> "KeyError", value |-> None]

\* Config.TIRE_COMPOUNDS (config.py:30-61), keyed by str, in the units of the
\* tables above.
TIRE_COMPOUNDS ==
    [k \in {Spelling[c] : c \in TireCompound} |->
        CASE k = Spelling[SOFT] ->
               [base_degradation |-> 8, cliff_point |-> 15,
                pace_delta |-> -800000, temp_sensitivity |-> 20]
          [] k = Spelling[MEDIUM] ->
               [base_degradation |-> 5, cliff_point |-> 25,
                pace_delta |-> 0, temp_sensitivity |-> 15]
          [] k = Spelling[HARD] ->
               [base_degradation |-> 3, cliff_point |-> 35,
                pace_delta |-> 600000, temp_sensitivity |-> 10]
          [] k = Spelling[INTERMEDIATE] ->
               [base_degradation |-> 6, cliff_point |-> 20,
                pace_delta |-> 1500000, temp_sensitivity |-> 25]
          [] k = Spelling[WET] ->
               [base_degradation |-> 7, cliff_point |-> 18,
                pace_delta |-> 2000000, temp_sensitivity |-> 30]]

\* TIRE_COMPOUNDS.get(key, default) of config.py:371.
CompoundsGet(key, default) ==
    IF key \in DOMAIN TIRE_COMPOUNDS THEN TIRE_COMPOUNDS[key] ELSE default

\* Config.get_tire_compound_info (config.py:368-371):
\*   cls.TIRE_COMPOUNDS.get(compound.lower(), cls.TIRE_COMPOUNDS['medium']).
\* Only a str has lower(); a member of TireCompound raises AttributeError.
GetTireCompoundInfo(compound) ==
    IF compound.type # "str"
    THEN [raised |-> "AttributeError", value |-> None]
    ELSE [raised |-> NoExc,
          value |-> Some(CompoundsGet(Lower(compound.name),
                                      TIRE_COMPOUNDS[Spelling[MEDIUM]]))]

\* The compound-parameter lookups of the repository, by name.
Lookups ==
    {"base_degradation_rates", "temp_sensitivity", "cliff_points", "base_pace_delta",
     "get_tire_compound_info"}

LookupCompound(lookup, compound) ==
    CASE lookup = "base_degradation_rates" -> TableLookup(tire_model.base_degradation_rates, compound)
      [] lookup = "temp_sensitivity" -> TableLookup(tire_model.temp_sensitivity, compound)
      [] lookup = "cliff_points" -> TableLookup(tire_model.cliff_points, compound)
      [] lookup = "base_pace_delta" -> TableLookup(tire_model.base_pace_delta, compound)
      [] lookup = "get_tire_compound_info" -> GetTireCompoundInfo(compound)

\* A variant without the wet-weather substitution.
KeepCompound(compound, is_wet) == compound

\* The wet-weather substitution (tire_model.py:94-95).
EffectiveCompound(compound, is_wet) ==
    IF is_wet /\ compound \in {SOFT, MEDIUM, HARD} THEN INTERMEDIATE ELSE compound

\* total_degradation in millionths (tire_model.py:98-119):
\*   base * (1 + temp_sensitivity * (track_temp - 30)) * abrasiveness * age
\*   + (age - cliff_point) * 0.1 past the cliff.
\* abr is the abrasiveness in tenths, so hundredths * thousandths * tenths
\* gives millionths.
\* A variant without the cliff penalty of tire_model.py:117-119.
TotalDegradationNoCliff(c, age_laps, track_temp, abr) ==
    base_degradation_rates[c] * (1000 + temp_sensitivity[c] * (track_temp - 30)) * abr * age_laps

TotalDegradation(c, age_laps, track_temp, abr) ==
    LET temp_factor == temp_sensitivity[c] * (track_temp - 30)
        linear == base_degradation_rates[c] * (1000 + temp_factor) * abr * age_laps
        cliff_penalty == IF age_laps > cliff_points[c]
                         THEN (age_laps - cliff_points[c]) * (Scale \div 10) ELSE 0
    IN  linear + cliff_penalty

\* grip_level = max(0.1, 1.0 - total_degradation / 3.0), as 3 * Scale * grip_level.
GripLevel(total_degradation) ==
    Max((3 * Scale) \div 10, 3 * Scale - total_degradation)

\* The TirePerformance built at tire_model.py:121-140 for the compound c in
\* effect, its total degradation td and the fuel load <<num, den>>;
\* estimated_pace_loss is in units of 1 / (Scale * den).  The fuel advantage
\* fuel_burn_gain_per_lap * ((100 - fuel_load) / 100) is, times Scale * den,
\* (the gain in millionths / 100) * (100 * den - num).
TirePerformance(c, age_laps, td, fuel_load) ==
    [compound |-> c,
     age_laps |-> age_laps,
     total_degradation |-> td,
     estimated_pace_loss |-> (base_pace_delta[c] + td) * fuel_load[2]
                               - ((fuel_burn_gain_per_lap * (Scale \div 1000)) \div 100)
                                   * (100 * fuel_load[2] - fuel_load[1]),
     cliff_point |-> cliff_points[c],
     optimal_window |-> <<Max(1, age_laps - 5), Min(cliff_points[c], age_laps + 10)>>,
     grip_level |-> GripLevel(td)]

\* tire_model.py:97-140, for the compound in effect.
PerformanceOfCompound(c, age_laps, track_temp, fuel_load, abr) ==
    TirePerformance(c, age_laps, TotalDegradation(c, age_laps, track_temp, abr), fuel_load)

\* TireModel.calculate_tire_performance.
CalculateTirePerformance(compound, age_laps, track_temp, fuel_load, abr, is_wet) ==
    PerformanceOfCompound(EffectiveCompound(compound, is_wet), age_laps, track_temp,
                          fuel_load, abr)

\* A variant in which the tank is empty at the last lap of the stint.
CurrentFuelToEmpty(starting_fuel, lap, stint_length) ==
    <<starting_fuel[1] * (stint_length - lap), starting_fuel[2] * stint_length>>

\* current_fuel = starting_fuel * (1 - (lap - 1) / stint_length), as <<num, den>>
\* (tire_model.py:170).
CurrentFuel(starting_fuel, lap, stint_length) ==
    <<starting_fuel[1] * (stint_length - lap + 1), starting_fuel[2] * stint_length>>

\* The fuel loads predict_stint_performance hands to calculate_tire_performance,
\* lap by lap.
StintFuelLoads(starting_fuel, stint_length) ==
    [lap \in 1..stint_length |-> CurrentFuel(starting_fuel, lap, stint_length)]

\* TireModel.predict_stint_performance: range(1, stint_length + 1) is empty for
\* stint_length <= 0.
PredictStintPerformance(compound, stint_length, starting_fuel, track_temp, abr, is_wet) ==
    [lap \in 1..stint_length |->
        CalculateTirePerformance(compound, lap, track_temp,
                                 CurrentFuel(starting_fuel, lap, stint_length),
                                 abr, is_wet)]

\* range(1, 60) stops before 60 (tire_model.py:241); return 60
\* (tire_model.py:251).
LapRangeStop == 60
MaximumStintLength == 60

\* The pace loss get_optimal_stint_length looks at for a lap: fuel_load=50.0,
\* is_wet left at its default (tire_model.py:242-248), in units of 1 / Scale.
MidStintPaceLoss(compound, lap, track_temp, abr) ==
    CalculateTirePerformance(compound, lap, track_temp, <<50, 1>>, abr, FALSE).estimated_pace_loss

\* The laps of the loop whose pace loss is above max_pace_loss
\* (tire_model.py:241-249).
LapsOverLoss(compound, max_pace_loss, track_temp, abr) ==
    {lap \in 1..(LapRangeStop - 1) :
        MidStintPaceLoss(compound, lap, track_temp, abr) > max_pace_loss}

\* TireModel.get_optimal_stint_length: max(1, lap - 1) for the first lap of
\* the loop over the threshold, 60 when the loop ends.
GetOptimalStintLength(compound, max_pace_loss, track_temp, abr) ==
    IF LapsOverLoss(compound, max_pace_loss, track_temp, abr) = {}
    THEN MaximumStintLength
    ELSE Max(1, (CHOOSE lap \in LapsOverLoss(compound, max_pace_loss, track_temp, abr) :
                    \A other \in LapsOverLoss(compound, max_pace_loss, track_temp, abr) :
                        lap <= other) - 1)

-----------------------------------------------------------------------------
(* models/strategy.py: the global random source                            *)
(*                                                                         *)
(* A raw draw is a natural number; random.randint and random.choice are    *)
(* what they make of it.  Every residue a caller can distinguish is        *)
(* reached by some raw draw of RawDraws.                                   *)

RawDraws == 0..6

\* random.randint(a, b), a <= b.
RandInt(a, b, raw) == a + (raw % (b - a + 1))

\* random.choice(seq).
RandChoice(seq, raw) == seq[(raw % Len(seq)) + 1]

\* The k-th draw (k >= 1) of a source whose draws repeat the sequence tape.
Draw(tape, k) == tape[((k - 1) % Len(tape)) + 1]

\* The len draws that follow the first k - 1.
DrawsFrom(tape, k, len) == [j \in 1..len |-> Draw(tape, k + j - 1)]

-----------------------------------------------------------------------------
(* models/strategy.py: the generator                                       *)

\* sorted(list(set(...))): the elements of a set of integers in ascending order.
RECURSIVE SortedSeq(_)
SortedSeq(S) ==
    IF S = {} THEN <<>>
    ELSE LET m == CHOOSE x \in S : \A y \in S : x <= y
         IN  <<m>> \o SortedSeq(S \ {m})

\* np.linspace(0.2, 0.8, num_stops)[j - 1] * remaining_laps, truncated by int():
\* the position is (2 * (n - 1) + 6 * (j - 1)) / (10 * (n - 1)), and 0.2 for n = 1.
StopOffset(j, num_stops, remaining_laps) ==
    IF num_stops = 1
    THEN TruncDiv(2 * remaining_laps, 10)
    ELSE TruncDiv((2 * (num_stops - 1) + 6 * (j - 1)) * remaining_laps,
                  10 * (num_stops - 1))

\* One iteration of the stop loop (strategy.py:170-171).
StopLap(j, num_stops, current_lap, total_laps, raw) ==
    LET lap == current_lap + StopOffset(j, num_stops, total_laps - current_lap)
                 + RandInt(-3, 3, raw)
    IN  Max(current_lap + 1, Min(total_laps - 1, lap))

\* One iteration of the compound loop (strategy.py:180-185); i counts from 0.
StintCompound(i, num_stop_laps, raw) ==
    IF i = 0 THEN RandChoice(<<MEDIUM, HARD>>, raw)
    ELSE IF i = num_stop_laps THEN RandChoice(<<SOFT, MEDIUM>>, raw)
    ELSE RandChoice(<<SOFT, MEDIUM, HARD>>, raw)

\* A variant that sizes the compound sequence by the stop laps that survive
\* the deduplication instead of by num_stops.
CandidateWithStintPerStopLap(num_stops, stop_laps, draws) ==
    [num_stops |-> num_stops,
     stop_laps |-> stop_laps,
     tire_sequence |-> [i \in 1..(Len(stop_laps) + 1) |->
                          StintCompound(i - 1, Len(stop_laps),
                                        draws[Max(num_stops, 0) + i])]]

\* The candidate built at strategy.py:176-191 once the stop laps are known.
CandidateWith(num_stops, stop_laps, draws) ==
    [num_stops |-> num_stops,
     stop_laps |-> stop_laps,
     tire_sequence |-> [i \in 1..(num_stops + 1) |->
                          StintCompound(i - 1, Len(stop_laps),
                                        draws[Max(num_stops, 0) + i])]]

\* The stop laps of strategy.py:165-174.
StopLaps(num_stops, current_lap, total_laps, draws) ==
    IF num_stops > 0
    THEN SortedSeq({StopLap(j, num_stops, current_lap, total_laps, draws[j]) :
                      j \in 1..num_stops})
    ELSE <<>>

\* StrategySimulator._generate_random_strategy.  draws are the raw draws the
\* call consumes, in order: one per stop position, then one per stint.
GenerateRandomStrategy(num_stops, current_lap, total_laps, draws) ==
    CandidateWith(num_stops, StopLaps(num_stops, current_lap, total_laps, draws), draws)

\* Number of raw draws one _generate_random_strategy call consumes.
DrawsNeeded(num_stops) == Max(num_stops, 0) + num_stops + 1

\* The next candidate of _generate_strategy_combinations, with num_stops stops,
\* from the raw draws that start at index k.
NextCandidate(num_stops, current_lap, total_laps, tape, k) ==
    GenerateRandomStrategy(num_stops, current_lap, total_laps,
                           DrawsFrom(tape, k, DrawsNeeded(num_stops)))

\* The cap of strategy.py:130 on the candidates generated per stop count.
StrategiesPerStopCap == 100

\* strategies_for_stops = min(num_simulations // (max_stops + 1), 100); the
\* stratified loop does not run for max_stops < 0.
StrategiesForStops(max_stops, num_simulations) ==
    IF max_stops < 0 THEN 0
    ELSE Min(num_simulations \div (max_stops + 1), StrategiesPerStopCap)

\* A variant of the inner loop that asks for candidates without stops
\* whatever the stop count of the block.
StratifiedBlockOfNoStops(num_stops, strategies_for_stops, k, current_lap, total_laps, tape) ==
    [j \in 1..Max(strategies_for_stops, 0) |->
        NextCandidate(0, current_lap, total_laps, tape,
                      k + (j - 1) * DrawsNeeded(num_stops))]

\* The inner loop of strategy.py:132-139 for one stop count: candidate j of
\* the block takes its draws after those of the j - 1 candidates before it;
\* range(strategies_for_stops) is empty for a negative count.
StratifiedBlock(num_stops, strategies_for_stops, k, current_lap, total_laps, tape) ==
    [j \in 1..Max(strategies_for_stops, 0) |->
        NextCandidate(num_stops, current_lap, total_laps, tape,
                      k + (j - 1) * DrawsNeeded(num_stops))]

\* The outer loop of strategy.py:129-139 from stop count num_stops on; k is
\* the index of the next raw draw.  The result is <<combinations, k>>.
RECURSIVE StratifiedLoop(_, _, _, _, _, _, _, _)
StratifiedLoop(num_stops, combinations, k, max_stops, strategies_for_stops, current_lap, total_laps, tape) ==
    IF num_stops > max_stops
    THEN <<combinations, k>>
    ELSE StratifiedLoop(num_stops + 1,
             combinations \o StratifiedBlock(num_stops, strategies_for_stops, k,
                                             current_lap, total_laps, tape),
             k + Max(strategies_for_stops, 0) * DrawsNeeded(num_stops),
             max_stops, strategies_for_stops, current_lap, total_laps, tape)

\* The padding loop of strategy.py:142-149 and the slice of strategy.py:151.
\* random.randint(0, max_stops) raises ValueError for max_stops < 0.
RECURSIVE PaddingLoop(_, _, _, _, _, _, _)
RECURSIVE PaddingStep(_, _, _, _, _, _, _, _)
PaddingStep(num_stops, combinations, k, max_stops, num_simulations, current_lap, total_laps, tape) ==
    PaddingLoop(Append(combinations, NextCandidate(num_stops, current_lap, total_laps, tape, k)),
                k + DrawsNeeded(num_stops), max_stops, num_simulations,
                current_lap, total_laps, tape)

PaddingLoop(combinations, k, max_stops, num_simulations, current_lap, total_laps, tape) ==
    IF Len(combinations) < num_simulations
    THEN IF max_stops < 0
         THEN [raised |-> "ValueError"]
         ELSE PaddingStep(RandInt(0, max_stops, Draw(tape, k)), combinations, k + 1,
                          max_stops, num_simulations, current_lap, total_laps, tape)
    ELSE [raised |-> NoExc,
          combinations |-> SubSeq(combinations, 1,
                              Min(Len(combinations), Max(num_simulations, 0)))]

\* The padding loop run on what the stratified loops left: <<combinations, k>>.
PadStratified(stratified, max_stops, num_simulations, current_lap, total_laps, tape) ==
    PaddingLoop(stratified[1], stratified[2], max_stops, num_simulations,
                current_lap, total_laps, tape)

\* StrategySimulator._generate_strategy_combinations. The result is the list
\* of candidates, or a ValueError when random.randint(0, max_stops) is called
\* with max_stops < 0 (an empty range).
GenerateStrategyCombinations(current_lap, total_laps, max_stops, num_simulations, tape) ==
    PadStratified(StratifiedLoop(0, <<>>, 1, max_stops,
                                 StrategiesForStops(max_stops, num_simulations),
                                 current_lap, total_laps, tape),
                  max_stops, num_simulations, current_lap, total_laps, tape)

-----------------------------------------------------------------------------
(* models/strategy.py: the evaluator                                       *)

\* self.track_characteristics['abrasiveness'] = 1.0, in tenths.
track_abrasiveness == AbrUnit

\* What one _calculate_pit_stop_time call draws: the Gaussian noise, in tenths
\* of a second, and the uniform draw of random.random(), in hundredths.
PitDraws == [noise : {-120, 0, 30}, u : {0, 50, 99}]

\* A variant of the pit-stop cost without the floor of 15.0 seconds.
CalculatePitStopTimeUnclamped(safety_car_prob, draw, total_laps) ==
    (250 + draw.noise - (IF draw.u < safety_car_prob THEN 75 ELSE 0))
        * (Scale \div 10) * total_laps

\* StrategySimulator._calculate_pit_stop_time, in units of 1 / (Scale * total_laps):
\* max(15.0, 25.0 + noise - 15.0 * 0.5 if the safety car is drawn).
\* safety_car_prob is in hundredths.
CalculatePitStopTime(safety_car_prob, draw, total_laps) ==
    Max(150, 250 + draw.noise - (IF draw.u < safety_car_prob THEN 75 ELSE 0))
        * (Scale \div 10) * total_laps

\* mapping.get(key, default).
MappingGet(m, key, default) == IF key \in DOMAIN m THEN m[key] ELSE default

\* starting_fuel = 100.0 - (stint_start_lap / race_state.total_laps * 60)
\* (strategy.py:290), as <<num, den>>.
StartingFuel(stint_start_lap, total_laps) ==
    <<100 * total_laps - 60 * stint_start_lap, total_laps>>

\* The performance of lap `lap` of a stint (strategy.py:287-294 with
\* tire_model.py:168-179): it runs with fuel
\*   starting_fuel * (1 - (lap - 1) / stint_length),
\*   starting_fuel = 100 - stint_start_lap / total_laps * 60.
LapPerformance(compound, lap, stint_length, stint_start_lap, total_laps, track_temp, is_wet) ==
    CalculateTirePerformance(compound, lap, track_temp,
        CurrentFuel(StartingFuel(stint_start_lap, total_laps), lap, stint_length),
        track_abrasiveness, is_wet)

\* stint_risk += 1.0 past the cliff point the lap's performance carries
\* (strategy.py:305-306), in tenths.
CliffRiskOfLap(p) == IF p.age_laps > p.cliff_point THEN 10 ELSE 0

\* The cliff part of the risk of a stint: what strategy.py:305-306 adds over
\* the laps of stint_performance.
RECURSIVE StintCliffRisk(_)
StintCliffRisk(stint_performance) ==
    IF stint_performance = <<>> THEN 0
    ELSE CliffRiskOfLap(Head(stint_performance)) + StintCliffRisk(Tail(stint_performance))

\* One iteration of the loop of strategy.py:300-314: acc is <<time, risk>>,
\* the time in units of 1 / (Scale * fden), the risk in tenths.
AddLap(acc, p, wrong_tire, fden) ==
    <<acc[1] + p.estimated_pace_loss + (IF wrong_tire THEN 2 * Scale * fden ELSE 0),
      acc[2] + CliffRiskOfLap(p)
             + (IF 10 * p.grip_level < 4 * 3 * Scale THEN 5 ELSE 0)
             + (IF wrong_tire THEN 20 ELSE 0)>>

\* A variant that takes every compound for the wrong one on a wet track.
WrongTireAnyCompound(is_wet, compound) == is_wet

\* is_wet and compound not in [INTERMEDIATE, WET] (strategy.py:312).
WrongTire(is_wet, compound) == is_wet /\ compound \notin {INTERMEDIATE, WET}

\* The loop of strategy.py:300-314 from lap `lap` on.
RECURSIVE StintLaps(_, _, _, _, _, _, _, _)
StintLaps(lap, acc, compound, stint_length, stint_start_lap, total_laps, track_temp, is_wet) ==
    IF lap > stint_length
    THEN acc
    ELSE StintLaps(lap + 1,
             AddLap(acc,
                    LapPerformance(compound, lap, stint_length, stint_start_lap,
                                   total_laps, track_temp, is_wet),
                    WrongTire(is_wet, compound),
                    total_laps * stint_length),
             compound, stint_length, stint_start_lap, total_laps, track_temp, is_wet)

\* <<total_stint_time, stint_risk>> in units of 1 / (Scale * total_laps) and
\* tenths: the sum over the stint is a whole multiple of 1 / (Scale * total_laps).
StintResult(acc, stint_length) ==
    [raised |-> NoExc, time |-> acc[1] \div stint_length, risk |-> acc[2]]

\* The body of _simulate_stint once the track conditions are known
\* (strategy.py:286-316).
StintBody(compound, stint_length, stint_start_lap, total_laps, track_temp, is_wet) ==
    StintResult(StintLaps(1, <<0, 0>>, compound, stint_length, stint_start_lap,
                          total_laps, track_temp, is_wet),
                stint_length)

\* StrategySimulator._simulate_stint.  race_state.weather_data is a WeatherData
\* instance (race_state.py:62, 228); the dataclass defines its seven fields
\* and no `get`, so the attribute lookup of strategy.py:283 raises
\* AttributeError before anything else runs.
SimulateStint(compound, stint_length, stint_start_lap, rs, consider_weather) ==
    IF "get" \notin DOMAIN rs.weather_data
    THEN [raised |-> "AttributeError"]
    ELSE StintBody(compound, stint_length, stint_start_lap, rs.total_laps,
                   MappingGet(rs.weather_data, "track_temperature", Some(30))[1],
                   IF consider_weather
                   THEN MappingGet(rs.weather_data, "rainfall", FALSE) ELSE FALSE)

\* A variant that penalizes no stop lap.
NeverExtreme(stop_lap, current_lap, remaining_laps) == FALSE

\* relative_position < 0.1 or relative_position > 0.9 (strategy.py:350-351),
\* for relative_position = (stop_lap - current_lap) / remaining_laps.
ExtremeStop(stop_lap, current_lap, remaining_laps) ==
    IF remaining_laps > 0
    THEN \/ 10 * (stop_lap - current_lap) < remaining_laps
         \/ 10 * (stop_lap - current_lap) > 9 * remaining_laps
    ELSE \/ 10 * (stop_lap - current_lap) > remaining_laps
         \/ 10 * (stop_lap - current_lap) < 9 * remaining_laps

\* StrategySimulator._calculate_strategy_confidence, in hundredths; a
\* ZeroDivisionError when a stop lap is divided by remaining_laps = 0.
CalculateStrategyConfidence(strategy, rs) ==
    IF Len(strategy.stop_laps) > 0 /\ rs.total_laps - rs.current_lap = 0
    THEN [raised |-> "ZeroDivisionError"]
    ELSE [raised |-> NoExc,
          value |->
            Max(10, Min(100,
                80 - (IF strategy.num_stops > 2 THEN 10 ELSE 0)
                   - 10 * Cardinality({j \in 1..Len(strategy.stop_laps) :
                            ExtremeStop(strategy.stop_laps[j], rs.current_lap,
                                        rs.total_laps - rs.current_lap)})
                   + (IF /\ Len(strategy.tire_sequence) >= 2
                         /\ \E j \in 1..Len(strategy.tire_sequence) :
                                strategy.tire_sequence[j] = MEDIUM
                      THEN 10 ELSE 0)))]

\* StrategySimulator._is_weather_adjusted_strategy.
IsWeatherAdjustedStrategy(tire_sequence) ==
    \E j \in 1..Len(tire_sequence) : tire_sequence[j] \in {INTERMEDIATE, WET}

\* Number of _calculate_pit_stop_time calls an evaluation can reach.
PitCalls(strategy_combo, rs) ==
    IF "get" \notin DOMAIN rs.weather_data THEN 0 ELSE Len(strategy_combo.stop_laps)

\* The stint loop of _simulate_single_strategy (strategy.py:214-248) from
\* stint idx on (idx counts from 1); pits is the number of pit stops taken.
RECURSIVE StintsLoop(_, _, _, _, _, _, _, _, _)
RECURSIVE AfterStint(_, _, _, _, _, _, _, _, _, _)

\* strategy.py:237-248, st being what _simulate_stint gave for stint idx.
AfterStint(st, stint_end_lap, idx, total_time, risk_score, pits, strategy_combo, rs, weather_prob, pit_draws) ==
    IF st.raised # NoExc
    THEN [raised |-> st.raised]
    ELSE IF idx <= Len(strategy_combo.stop_laps)
    THEN StintsLoop(idx + 1, stint_end_lap,
                    total_time + st.time
                      + CalculatePitStopTime(weather_prob[2], pit_draws[pits + 1],
                                             rs.total_laps),
                    risk_score + st.risk, pits + 1,
                    strategy_combo, rs, weather_prob, pit_draws)
    ELSE StintsLoop(idx + 1, stint_end_lap, total_time + st.time,
                    risk_score + st.risk, pits,
                    strategy_combo, rs, weather_prob, pit_draws)

\* The end lap of stint idx (strategy.py:219-222).
StintEndLap(idx, strategy_combo, rs) ==
    IF idx <= Len(strategy_combo.stop_laps)
    THEN strategy_combo.stop_laps[idx] ELSE rs.total_laps

StintsLoop(idx, stint_start_lap, total_time, risk_score, pits, strategy_combo, rs, weather_prob, pit_draws) ==
    IF idx > Len(strategy_combo.tire_sequence)
    THEN [raised |-> NoExc, total_time |-> total_time, risk_score |-> risk_score]
    ELSE IF StintEndLap(idx, strategy_combo, rs) - stint_start_lap <= 0
    THEN StintsLoop(idx + 1, stint_start_lap, total_time, risk_score, pits,
                    strategy_combo, rs, weather_prob, pit_draws)
    ELSE AfterStint(SimulateStint(strategy_combo.tire_sequence[idx],
                                  StintEndLap(idx, strategy_combo, rs) - stint_start_lap,
                                  stint_start_lap, rs, weather_prob[1]),
                    StintEndLap(idx, strategy_combo, rs), idx, total_time, risk_score,
                    pits, strategy_combo, rs, weather_prob, pit_draws)

\* The RaceStrategy of strategy.py:250-266 after the stint loop gave `run`, or
\* None when the loop or the confidence computation raised (strategy.py:268-270).
\* The strategy_id is "strat_", the stop count and a hash of the candidate; the
\* hash adds nothing the other fields do not hold.
StrategyResult(run, confidence, strategy_combo, consider_weather) ==
    IF run.raised # NoExc THEN None
    ELSE IF confidence.raised # NoExc THEN None
    ELSE [strategy_id |-> <<"strat", strategy_combo.num_stops>>,
          num_stops |-> strategy_combo.num_stops,
          stop_laps |-> strategy_combo.stop_laps,
          tire_sequence |-> strategy_combo.tire_sequence,
          total_time |-> run.total_time,
          risk_score |-> run.risk_score,
          weather_adjusted |-> consider_weather
                                 /\ IsWeatherAdjustedStrategy(strategy_combo.tire_sequence),
          confidence |-> confidence.value]

\* The stints _simulate_single_strategy hands to _simulate_stint, in order
\* (strategy.py:214-248 without the sums): the stints of positive length, from
\* stint idx on.
RECURSIVE EvaluatedStints(_, _, _, _)
EvaluatedStints(idx, stint_start_lap, strategy_combo, rs) ==
    IF idx > Len(strategy_combo.tire_sequence)
    THEN <<>>
    ELSE IF StintEndLap(idx, strategy_combo, rs) - stint_start_lap <= 0
    THEN EvaluatedStints(idx + 1, stint_start_lap, strategy_combo, rs)
    ELSE <<[stint_idx |-> idx - 1,
            compound |-> strategy_combo.tire_sequence[idx],
            stint_start_lap |-> stint_start_lap,
            stint_length |-> StintEndLap(idx, strategy_combo, rs) - stint_start_lap]>>
         \o EvaluatedStints(idx + 1, StintEndLap(idx, strategy_combo, rs),
                            strategy_combo, rs)

\* The fuel loads of the per-lap tire evaluations of the stints, in race order
\* (strategy.py:287-294, tire_model.py:168-179).
RECURSIVE RaceFuelLoads(_, _)
RaceFuelLoads(stints, total_laps) ==
    IF stints = <<>> THEN <<>>
    ELSE StintFuelLoads(StartingFuel(stints[1].stint_start_lap, total_laps),
                        stints[1].stint_length)
         \o RaceFuelLoads(Tail(stints), total_laps)

\* What _simulate_stint returns for the stints handed to it, in order
\* (strategy.py:228-234).
StintResults(stints, rs, consider_weather) ==
    [k \in 1..Len(stints) |->
        SimulateStint(stints[k].compound, stints[k].stint_length,
                      stints[k].stint_start_lap, rs, consider_weather)]

\* The stints followed by a pit stop: stint_idx < len(stop_laps)
\* (strategy.py:240).
PitStints(stints, strategy_combo) ==
    SelectSeq(stints, LAMBDA st : st.stint_idx < Len(strategy_combo.stop_laps))

\* What _calculate_pit_stop_time returns for them, in order (strategy.py:240-245).
PitStopTimes(stints, strategy_combo, rs, safety_car_prob, pit_draws) ==
    [k \in 1..Len(PitStints(stints, strategy_combo)) |->
        CalculatePitStopTime(safety_car_prob, pit_draws[k], rs.total_laps)]

\* StrategySimulator._simulate_single_strategy.  pit_draws[k] is what the k-th
\* pit-stop computation draws.
SimulateSingleStrategy(strategy_combo, rs, consider_weather, safety_car_prob, pit_draws) ==
    StrategyResult(StintsLoop(1, rs.current_lap, 0, 0, 0, strategy_combo, rs,
                              <<consider_weather, safety_car_prob>>, pit_draws),
                   CalculateStrategyConfidence(strategy_combo, rs),
                   strategy_combo, consider_weather)

\* A variant of the fallback that hands back an empty list.
EmptyDemoList == <<>>

\* StrategySimulator._generate_demo_strategies: total_time in units of 1 / Scale,
\* risk_score in tenths, confidence in hundredths.
GenerateDemoStrategies ==
    << [strategy_id |-> "demo_1_stop", num_stops |-> 1, stop_laps |-> <<35>>,
        tire_sequence |-> <<MEDIUM, HARD>>, total_time |-> 1205 * (Scale \div 10),
        risk_score |-> 12, weather_adjusted |-> FALSE, confidence |-> 85],
       [strategy_id |-> "demo_2_stop", num_stops |-> 2, stop_laps |-> <<25, 45>>,
        tire_sequence |-> <<SOFT, MEDIUM, HARD>>, total_time |-> 1187 * (Scale \div 10),
        risk_score |-> 21, weather_adjusted |-> FALSE, confidence |-> 78],
       [strategy_id |-> "demo_aggressive", num_stops |-> 2, stop_laps |-> <<20, 40>>,
        tire_sequence |-> <<SOFT, SOFT, MEDIUM>>, total_time |-> 1163 * (Scale \div 10),
        risk_score |-> 35, weather_adjusted |-> FALSE, confidence |-> 65],
       [strategy_id |-> "demo_conservative", num_stops |-> 1, stop_laps |-> <<40>>,
        tire_sequence |-> <<HARD, MEDIUM>>, total_time |-> 1252 * (Scale \div 10),
        risk_score |-> 8, weather_adjusted |-> FALSE, confidence |-> 92],
       [strategy_id |-> "demo_weather", num_stops |-> 3, stop_laps |-> <<15, 30, 50>>,
        tire_sequence |-> <<INTERMEDIATE, SOFT, MEDIUM, HARD>>,
        total_time |-> 1358 * (Scale \div 10),
        risk_score |-> 42, weather_adjusted |-> TRUE, confidence |-> 45] >>

\* best_strategy = strategies[0], worst_strategy = strategies[-1]
\* (strategy.py:434-435), as positions in the list.
BestAndWorst(strategy_list) == <<1, Len(strategy_list)>>

\* len([s for s in strategies if s.num_stops == n]) (strategy.py:447-452).
StopCount(strategy_list, n) ==
    Cardinality({k \in 1..Len(strategy_list) : strategy_list[k].num_stops = n})

RECURSIVE RiskSum(_)
RiskSum(strategy_list) ==
    IF strategy_list = <<>> THEN 0
    ELSE Head(strategy_list).risk_score + RiskSum(Tail(strategy_list))

\* StrategySimulator.analyze_strategy_comparison on strategies = strategy_list
\* (current_strategy is not read).  asdict(...) copies the fields of an entry; average_risk is
\* <<sum, count>>.
AnalyzeStrategyComparison(strategy_list) ==
    IF strategy_list = <<>>
    THEN [error |-> "No strategies to analyze"]
    ELSE [total_strategies |-> Len(strategy_list),
          best_strategy |-> strategy_list[BestAndWorst(strategy_list)[1]],
          worst_strategy |-> strategy_list[BestAndWorst(strategy_list)[2]],
          time_difference |->
              strategy_list[BestAndWorst(strategy_list)[2]].total_time
                - strategy_list[BestAndWorst(strategy_list)[1]].total_time,
          risk_analysis |->
              [lowest_risk |->
                   CHOOSE r \in {strategy_list[k].risk_score : k \in 1..Len(strategy_list)} :
                       \A k \in 1..Len(strategy_list) : r <= strategy_list[k].risk_score,
               highest_risk |->
                   CHOOSE r \in {strategy_list[k].risk_score : k \in 1..Len(strategy_list)} :
                       \A k \in 1..Len(strategy_list) : r >= strategy_list[k].risk_score,
               average_risk |-> <<RiskSum(strategy_list), Len(strategy_list)>>],
          stop_distribution |->
              [stops_0 |-> StopCount(strategy_list, 0), stops_1 |-> StopCount(strategy_list, 1),
               stops_2 |-> StopCount(strategy_list, 2), stops_3 |-> StopCount(strategy_list, 3)],
          weather_strategies |->
              Cardinality({k \in 1..Len(strategy_list) : strategy_list[k].weather_adjusted})]

-----------------------------------------------------------------------------
(* models/strategy.py: the orchestrator                                    *)

\* ThreadPoolExecutor(max_workers=4), strategies[:20].
MaxWorkers == 4
TopN == 20

\* list.sort(key=lambda x: x.total_time): a stable sort.
InsertByTotalTime(sorted, x) ==
    LET k == Cardinality({j \in 1..Len(sorted) : sorted[j].total_time <= x.total_time})
    IN  SubSeq(sorted, 1, k) \o <<x>> \o SubSeq(sorted, k + 1, Len(sorted))

RECURSIVE SortByTotalTime(_)
SortByTotalTime(seq) ==
    IF seq = <<>> THEN <<>>
    ELSE InsertByTotalTime(SortByTotalTime(SubSeq(seq, 1, Len(seq) - 1)), seq[Len(seq)])

\* A variant that does not cut the list.
TopStrategiesUncut(seq) == seq

\* strategies[:20]
TopStrategies(seq) == SubSeq(seq, 1, Min(Len(seq), TopN))

\* The sorted, truncated list simulate_strategies returns (strategy.py:111-112).
RankedList(seq) == TopStrategies(SortByTotalTime(seq))

NoArgs == [num_simulations |-> 0, consider_weather |-> FALSE,
           safety_car_prob |-> 0, max_stops |-> 0]
NoOutcome == [kind |-> "none", value |-> <<>>, raised |-> NoExc]

\* The inputs explored. Lap counts:
LapInputs == {0} \cup ((MaxLap - 1)..MaxLap)

WeatherDicts ==
    { [track_temperature |-> Absent, rainfall |-> Absent],
      [track_temperature |-> Some(35), rainfall |-> Absent],
      [track_temperature |-> Absent, rainfall |-> Some(TRUE)] }

LiveData ==
    [current_lap : {Absent} \cup {Some(n) : n \in LapInputs},
     total_laps : {Absent} \cup {Some(n) : n \in LapInputs},
     positions : {Absent, Some(<<>>), Some(<<[driver_number |-> 0]>>),
                  Some(<<[driver_number |-> 44]>>)},
     weather : {Absent} \cup {Some(d) : d \in WeatherDicts}]

Tapes == [1..RngLen -> RawDraws]

SmallArgs ==
    [num_simulations : 0..MaxSims, consider_weather : BOOLEAN,
     safety_car_prob : {0, 15, 100}, max_stops : (-1)..MaxStops]

\* One batch large enough for the truncation to the top 20 to cut something.
LargeArgs ==
    [num_simulations |-> TopN + 1, consider_weather |-> TRUE,
     safety_car_prob |-> 15, max_stops |-> 0]

Explored(rs, a, tape) ==
    \/ a \in SmallArgs
    \/ /\ a = LargeArgs
       /\ tape = [j \in 1..RngLen |-> 0]
       /\ rs.current_lap = MaxLap /\ rs.total_laps = MaxLap
       /\ rs.weather_data = WeatherData(None, FALSE)

Futures == 1..Len(strategy_combinations)
Running == {i \in Futures : future_state[i] = "running"}
Pending == {i \in Futures : future_state[i] = "pending"}
Finished == {i \in Futures : future_state[i] = "finished"}

\* The external collaborator feeds the race state between calls.
Update(live_data) ==
    /\ pc = "idle"
    /\ race_state' = UpdateRaceState(race_state, live_data)
    /\ UNCHANGED <<pc, args, strategy_combinations, future_state, future_result,
                   completed, strategies, outcome, tire_model, callVars>>

\* simulate_strategies, strategy.py:78-79: the demo fallback.
CallInvalid(a) ==
    /\ pc = "idle"
    /\ ~IsValid(race_state)
    /\ args' = a
    /\ outcome' = [kind |-> "returned", value |-> GenerateDemoStrategies, raised |-> NoExc]
    /\ pc' = "done"
    /\ UNCHANGED <<race_state, strategy_combinations, future_state, future_result,
                   completed, strategies, tire_model, callVars>>

\* simulate_strategies, strategy.py:82-87, when the generator raises: nothing
\* around the call catches it.
GeneratorRaises(a, gen) ==
    /\ pc = "idle"
    /\ IsValid(race_state)
    /\ gen.raised # NoExc
    /\ args' = a
    /\ outcome' = [kind |-> "raised", value |-> <<>>, raised |-> gen.raised]
    /\ pc' = "done"
    /\ UNCHANGED <<race_state, strategy_combinations, future_state, future_result,
                   completed, strategies, tire_model, callVars>>

\* simulate_strategies, strategy.py:82-100: generate the candidates and submit
\* one future per candidate.
Submit(a, gen) ==
    /\ pc = "idle"
    /\ IsValid(race_state)
    /\ gen.raised = NoExc
    /\ args' = a
    /\ strategy_combinations' = gen.combinations
    /\ future_state' = [i \in 1..Len(gen.combinations) |-> "pending"]
    /\ future_result' = [i \in 1..Len(gen.combinations) |-> None]
    /\ completed' = <<>>
    /\ strategies' = <<>>
    /\ pc' = "as_completed"
    /\ UNCHANGED <<race_state, outcome, tire_model, callVars>>

\* The candidates simulate_strategies asks for (strategy.py:82-87).
Generated(a, tape) ==
    GenerateStrategyCombinations(race_state.current_lap, race_state.total_laps,
                                 a.max_stops, a.num_simulations, tape)

CallGeneratorRaises(a, tape) ==
    Explored(race_state, a, tape) /\ GeneratorRaises(a, Generated(a, tape))

CallSubmit(a, tape) ==
    Explored(race_state, a, tape) /\ Submit(a, Generated(a, tape))

\* A variant of the pool without the limit of max_workers threads.
WorkerStartUnbounded(i) ==
    /\ pc = "as_completed"
    /\ i \in Pending
    /\ \A j \in Pending : i <= j
    /\ future_state' = [future_state EXCEPT ![i] = "running"]
    /\ UNCHANGED <<race_state, pc, args, strategy_combinations, future_result,
                   completed, strategies, outcome, tire_model, callVars>>

\* A pool thread takes the oldest queued work item.
WorkerStart(i) ==
    /\ pc = "as_completed"
    /\ i \in Pending
    /\ \A j \in Pending : i <= j
    /\ Cardinality(Running) < MaxWorkers
    /\ future_state' = [future_state EXCEPT ![i] = "running"]
    /\ UNCHANGED <<race_state, pc, args, strategy_combinations, future_result,
                   completed, strategies, outcome, tire_model, callVars>>

\* A variant in which the evaluation advances the lap counter of the race state
\* it was given.
FinishAdvancingLap(i, r) ==
    /\ pc = "as_completed"
    /\ i \in Running
    /\ future_result' = [future_result EXCEPT ![i] = r]
    /\ completed' = Append(completed, r)
    /\ future_state' = [future_state EXCEPT ![i] = "finished"]
    /\ race_state' = [race_state EXCEPT !.current_lap = @ + 1]
    /\ UNCHANGED <<pc, args, strategy_combinations, strategies,
                   outcome, tire_model, callVars>>

\* A variant in which an evaluation never ends.
FinishNever(i, r) ==
    /\ pc = "as_completed"
    /\ i \in Running
    /\ UNCHANGED vars

\* A pool thread ends _simulate_single_strategy with r and sets the future's result.
Finish(i, r) ==
    /\ pc = "as_completed"
    /\ i \in Running
    /\ future_result' = [future_result EXCEPT ![i] = r]
    /\ completed' = Append(completed, r)
    /\ future_state' = [future_state EXCEPT ![i] = "finished"]
    /\ UNCHANGED <<race_state, pc, args, strategy_combinations, strategies,
                   outcome, tire_model, callVars>>

WorkerFinish(i, pit_draws) ==
    Finish(i, SimulateSingleStrategy(strategy_combinations[i], race_state,
                  args.consider_weather, args.safety_car_prob, pit_draws))

\* A variant of the loop in which a failed candidate ends the call.
CollectAborting ==
    /\ pc = "as_completed"
    /\ completed # <<>>
    /\ IF Head(completed) = None
       THEN /\ outcome' = [kind |-> "raised", value |-> <<>>, raised |-> "Exception"]
            /\ pc' = "done"
            /\ UNCHANGED strategies
       ELSE /\ strategies' = Append(strategies, Head(completed))
            /\ UNCHANGED <<outcome, pc>>
    /\ completed' = Tail(completed)
    /\ UNCHANGED <<race_state, args, strategy_combinations, future_state,
                   future_result, tire_model, callVars>>

\* One iteration of the as_completed loop (strategy.py:102-108).
Collect ==
    /\ pc = "as_completed"
    /\ completed # <<>>
    /\ strategies' = IF Head(completed) # None
                     THEN Append(strategies, Head(completed)) ELSE strategies
    /\ completed' = Tail(completed)
    /\ UNCHANGED <<race_state, pc, args, strategy_combinations, future_state,
                   future_result, outcome, tire_model, callVars>>

\* A variant that sorts and returns without waiting for as_completed to be
\* exhausted.
ReturnEarly ==
    /\ pc = "as_completed"
    /\ outcome' = [kind |-> "returned", value |-> RankedList(strategies), raised |-> NoExc]
    /\ pc' = "done"
    /\ UNCHANGED <<race_state, args, strategy_combinations, future_state,
                   future_result, completed, strategies, tire_model, callVars>>

\* as_completed is exhausted once every future has been yielded; the pool is
\* shut down, the list sorted and cut (strategy.py:110-112).
Return ==
    /\ pc = "as_completed"
    /\ Finished = Futures
    /\ completed = <<>>
    /\ outcome' = [kind |-> "returned", value |-> RankedList(strategies), raised |-> NoExc]
    /\ pc' = "done"
    /\ UNCHANGED <<race_state, args, strategy_combinations, future_state,
                   future_result, completed, strategies, tire_model, callVars>>

\* The caller takes the outcome; the locals of the call are gone.
Resume ==
    /\ pc = "done"
    /\ pc' = "idle"
    /\ args' = NoArgs
    /\ strategy_combinations' = <<>>
    /\ future_state' = <<>>
    /\ future_result' = <<>>
    /\ completed' = <<>>
    /\ strategies' = <<>>
    /\ outcome' = NoOutcome
    /\ UNCHANGED <<race_state, tire_model, callVars>>

NoGenCall == [num_stops |-> 0, current_lap |-> 0, total_laps |-> 0, result |-> None]
NoTireCall == [compound |-> MEDIUM, age_laps |-> 0, track_temp |-> 30,
               fuel_load |-> <<100, 1>>, abrasiveness |-> AbrUnit, is_wet |-> FALSE,
               result |-> None]

NoStintCall == [compound |-> MEDIUM, stint_length |-> 0, starting_fuel |-> <<100, 1>>,
                track_temp |-> 30, is_wet |-> FALSE, fuel_loads |-> <<>>, cliff_risk |-> 0, result |-> None]
NoLookupCall == [lookup |-> "get_tire_compound_info", compound |-> StrKey(Spelling[MEDIUM]), result |-> None]

NoCombCall == [current_lap |-> 0, total_laps |-> 0, max_stops |-> 0,
               num_simulations |-> 0, result |-> None]
NoEvalCall == [strategy_combo |-> [num_stops |-> 0, stop_laps |-> <<>>, tire_sequence |-> <<>>],
               rs |-> NewRaceState, consider_weather |-> FALSE, safety_car_prob |-> 0,
               pit_tape |-> <<>>, stints |-> <<>>, fuel_loads |-> <<>>,
               stint_results |-> <<>>, pit_times |-> <<>>, result |-> None]
NoCompareCall == [strategies |-> <<>>, result |-> None]
NoOptimalCall == [compound |-> MEDIUM, max_pace_loss |-> 0, track_temp |-> 30,
                  track_abrasiveness |-> AbrUnit, result |-> None]
NoConfCall == [strategy |-> [num_stops |-> 0, stop_laps |-> <<>>, tire_sequence |-> <<>>],
               current_lap |-> 0, total_laps |-> 0, result |-> None]

NoOtherCalls ==
    /\ comb_call = NoCombCall
    /\ eval_call = NoEvalCall
    /\ compare_call = NoCompareCall
    /\ optimal_call = NoOptimalCall
    /\ conf_call = NoConfCall

\* Nothing has been called yet.
Fresh ==
    /\ race_state = NewRaceState
    /\ pc = "idle"
    /\ args = NoArgs
    /\ strategy_combinations = <<>>
    /\ future_state = <<>>
    /\ future_result = <<>>
    /\ completed = <<>>
    /\ strategies = <<>>
    /\ outcome = NoOutcome
    /\ tire_model = NewTireModel

Init ==
    /\ Fresh
    /\ gen_call = NoGenCall
    /\ tire_call = NoTireCall
    /\ stint_call = NoStintCall
    /\ lookup_call = NoLookupCall
    /\ NoOtherCalls

\* simulate_strategies is called by one thread at a time: arguments are
\* offered, and the race state is updated, only while no call is under way.
Offered == IF pc = "idle" THEN SmallArgs \cup {LargeArgs} ELSE {}
Fed == IF pc = "idle" THEN LiveData ELSE {}

Next ==
    \/ \E live_data \in Fed : Update(live_data)
    \/ \E a \in Offered : CallInvalid(a)
    \/ \E a \in Offered : \E tape \in Tapes : CallGeneratorRaises(a, tape)
    \/ \E a \in Offered : \E tape \in Tapes : CallSubmit(a, tape)
    \/ \E i \in Pending : WorkerStart(i)
    \/ \E i \in Running :
          \E pit_draws \in [1..PitCalls(strategy_combinations[i], race_state) -> PitDraws] :
              WorkerFinish(i, pit_draws)
    \/ Collect
    \/ Return
    \/ Resume

Spec == Init /\ [][Next]_vars

\* The steps of the pool threads, whichever future they are about.
WorkerStarts == \E i \in Pending : WorkerStart(i)
WorkerFinishes ==
    \E i \in Running :
       \E pit_draws \in [1..PitCalls(strategy_combinations[i], race_state) -> PitDraws] :
           WorkerFinish(i, pit_draws)

\* The scheduling the call relies on: an idle pool thread takes queued work, a
\* running evaluation (a finite computation) ends, and the orchestrating
\* thread goes on with its as_completed loop and its return.
CallProgress ==
    /\ WF_vars(WorkerStarts)
    /\ WF_vars(WorkerFinishes)
    /\ WF_vars(Collect)
    /\ WF_vars(Return)

\* The calls explored for termination: every argument combination of
\* SmallArgs (without the one large batch of LargeArgs).
OfferedSmall == IF pc = "idle" THEN SmallArgs ELSE {}

NextLive ==
    \/ \E live_data \in Fed : Update(live_data)
    \/ \E a \in OfferedSmall : CallInvalid(a)
    \/ \E a \in OfferedSmall : \E tape \in Tapes : CallGeneratorRaises(a, tape)
    \/ \E a \in OfferedSmall : \E tape \in Tapes : CallSubmit(a, tape)
    \/ WorkerStarts
    \/ WorkerFinishes
    \/ Collect
    \/ Return
    \/ Resume

SpecLive == Init /\ [][NextLive]_vars /\ CallProgress

-----------------------------------------------------------------------------
(* The generator alone: _generate_random_strategy on the stop counts and   *)
(* lap counters _generate_strategy_combinations can hand it for a valid    *)
(* race state (num_stops >= 0, both lap counters positive).                *)

GenTapes == [1..GenRngLen -> RawDraws]

GenInputs ==
    [num_stops : 0..GenMaxStops, current_lap : 1..GenMaxLap,
     total_laps : 1..GenMaxLap, result : {None}]

InitGen ==
    /\ Fresh
    /\ gen_call \in GenInputs
    /\ tire_call = NoTireCall
    /\ stint_call = NoStintCall
    /\ lookup_call = NoLookupCall
    /\ NoOtherCalls

GenApply(tape) ==
    /\ gen_call.result = None
    /\ gen_call' = [gen_call EXCEPT !.result =
                      Some(GenerateRandomStrategy(gen_call.num_stops, gen_call.current_lap,
                               gen_call.total_laps,
                               DrawsFrom(tape, 1, DrawsNeeded(gen_call.num_stops))))]
    /\ UNCHANGED <<simVars, tire_call, stint_call, lookup_call, otherCalls>>

NextGen == \E tape \in GenTapes : GenApply(tape)

SpecGen == InitGen /\ [][NextGen]_vars

-----------------------------------------------------------------------------
(* The tire model alone: calculate_tire_performance.                       *)

\* Track temperatures in degrees, fuel loads in percent, abrasiveness in tenths.
TrackTemps == {-10, 15, 30, 45}
FuelLoads == {<<0, 1>>, <<50, 1>>, <<100, 1>>}
Abrasiveness == {5, 10, 15}

TireInputs ==
    [compound : TireCompound, age_laps : 0..MaxAge, track_temp : TrackTemps,
     fuel_load : FuelLoads, abrasiveness : Abrasiveness, is_wet : BOOLEAN,
     result : {None}]

InitTire ==
    /\ Fresh
    /\ gen_call = NoGenCall
    /\ tire_call \in TireInputs
    /\ stint_call = NoStintCall
    /\ lookup_call = NoLookupCall
    /\ NoOtherCalls

TireApply ==
    /\ tire_call.result = None
    /\ tire_call' = [tire_call EXCEPT !.result =
                       Some(CalculateTirePerformance(tire_call.compound, tire_call.age_laps,
                                tire_call.track_temp, tire_call.fuel_load,
                                tire_call.abrasiveness, tire_call.is_wet))]
    /\ UNCHANGED <<simVars, gen_call, stint_call, lookup_call, otherCalls>>

NextTire == TireApply

SpecTire == InitTire /\ [][NextTire]_vars

-----------------------------------------------------------------------------
(* The stint predictor alone: predict_stint_performance.                   *)

MaxStint == 21

\* Starting fuel loads in percent.
StartingFuels == {<<0, 1>>, <<40, 1>>, <<100, 1>>}

StintInputs ==
    [compound : TireCompound, stint_length : 0..MaxStint, starting_fuel : StartingFuels,
     track_temp : TrackTemps, is_wet : BOOLEAN, fuel_loads : {<<>>}, cliff_risk : {0},
     result : {None}]

InitStint ==
    /\ Fresh
    /\ gen_call = NoGenCall
    /\ tire_call = NoTireCall
    /\ stint_call \in StintInputs
    /\ lookup_call = NoLookupCall
    /\ NoOtherCalls

StintApply ==
    /\ stint_call.result = None
    /\ stint_call' =
          [stint_call EXCEPT
             !.fuel_loads = StintFuelLoads(stint_call.starting_fuel, stint_call.stint_length),
             !.cliff_risk = StintCliffRisk(
                                PredictStintPerformance(stint_call.compound,
                                    stint_call.stint_length, stint_call.starting_fuel,
                                    stint_call.track_temp, track_abrasiveness,
                                    stint_call.is_wet)),
             !.result = Some(PredictStintPerformance(stint_call.compound,
                                 stint_call.stint_length, stint_call.starting_fuel,
                                 stint_call.track_temp, track_abrasiveness,
                                 stint_call.is_wet))]
    /\ UNCHANGED <<simVars, gen_call, tire_call, lookup_call, otherCalls>>

NextStint == StintApply

SpecStint == InitStint /\ [][NextStint]_vars

-----------------------------------------------------------------------------
(* One compound-parameter lookup, for compounds given as members of        *)
(* TireCompound or as str in several spellings.                             *)

\* Names that are not values of TireCompound.
OtherNames ==
    {<<"h", "y", "p", "e", "r", "s", "o", "f", "t">>,
     <<"s", "l", "i", "c", "k">>,
     <<"c", "3">>,
     <<>>}

Capitalized(str) == [i \in DOMAIN str |-> IF i = 1 THEN UpperChar(str[i]) ELSE str[i]]

CompoundNames ==
    LET names == {Spelling[c] : c \in TireCompound} \cup OtherNames
    IN  names \cup {Upper(n) : n \in names} \cup {Capitalized(n) : n \in names}

CompoundKeys == {MemberKey(c) : c \in TireCompound} \cup {StrKey(n) : n \in CompoundNames}

LookupInputs == [lookup : Lookups, compound : CompoundKeys, result : {None}]

InitLookup ==
    /\ Fresh
    /\ gen_call = NoGenCall
    /\ tire_call = NoTireCall
    /\ stint_call = NoStintCall
    /\ lookup_call \in LookupInputs
    /\ NoOtherCalls

LookupApply ==
    /\ lookup_call.result = None
    /\ lookup_call' = [lookup_call EXCEPT !.result =
                         Some(LookupCompound(lookup_call.lookup, lookup_call.compound))]
    /\ UNCHANGED <<simVars, gen_call, tire_call, stint_call, otherCalls>>

NextLookup == LookupApply

SpecLookup == InitLookup /\ [][NextLookup]_vars

-----------------------------------------------------------------------------
(* The generator's outer function alone: _generate_strategy_combinations.  *)

\* One batch larger than the cap on the candidates per stop count.
BatchOverCap == StrategiesPerStopCap + 1

CombInputs ==
    [current_lap : 1..2, total_laps : {GenMaxLap}, max_stops : 0..CombMaxStops,
     num_simulations : (0..CombMaxSims) \cup {BatchOverCap}, result : {None}]

InitComb ==
    /\ Fresh
    /\ gen_call = NoGenCall
    /\ tire_call = NoTireCall
    /\ stint_call = NoStintCall
    /\ lookup_call = NoLookupCall
    /\ comb_call \in CombInputs
    /\ eval_call = NoEvalCall
    /\ compare_call = NoCompareCall
    /\ optimal_call = NoOptimalCall
    /\ conf_call = NoConfCall

CombApply(tape) ==
    /\ comb_call.result = None
    /\ comb_call' = [comb_call EXCEPT !.result =
                       Some(GenerateStrategyCombinations(comb_call.current_lap,
                                comb_call.total_laps, comb_call.max_stops,
                                comb_call.num_simulations, tape))]
    /\ UNCHANGED <<simVars, gen_call, tire_call, stint_call, lookup_call,
                   eval_call, compare_call, optimal_call, conf_call>>

NextComb == \E tape \in Tapes : CombApply(tape)

SpecComb == InitComb /\ [][NextComb]_vars

-----------------------------------------------------------------------------
(* The evaluator alone: _simulate_single_strategy on a race state whose    *)
(* weather_data is the WeatherData object of RaceState or a mapping, as    *)
(* the `.get` calls of _simulate_stint expect.                             *)

\* A mapping has `get`; its keys are the fields present.
EvalWeather ==
    { WeatherData(None, FALSE),
      [get |-> TRUE],
      [get |-> TRUE, rainfall |-> FALSE],
      [get |-> TRUE, track_temperature |-> Some(35), rainfall |-> TRUE] }

EvalRaceStates ==
    [current_lap : 1..2, total_laps : {EvalLaps}, weather_data : EvalWeather]

\* The candidates evaluated for a race state: those the generator produces for
\* it, and two that run on rain tires.
EvalCandidates(rs) ==
    {GenerateRandomStrategy(num_stops, rs.current_lap, rs.total_laps,
                            DrawsFrom(tape, 1, DrawsNeeded(num_stops))) :
        num_stops \in 0..EvalMaxStops, tape \in Tapes}
    \cup {[num_stops |-> 0, stop_laps |-> <<>>, tire_sequence |-> <<WET>>],
          [num_stops |-> 1, stop_laps |-> <<rs.total_laps \div 2>>,
           tire_sequence |-> <<INTERMEDIATE, MEDIUM>>]}

\* The draws of the pit-stop computations of one evaluation repeat a pair.
EvalPitDraws == {d \in PitDraws : d.noise # 0 /\ d.u # 50}
PitTapes == EvalPitDraws \X EvalPitDraws
PitDrawsOf(pit_tape, strategy_combo, rs) ==
    [k \in 1..PitCalls(strategy_combo, rs) |-> Draw(pit_tape, k)]

InitEval ==
    /\ Fresh
    /\ gen_call = NoGenCall
    /\ tire_call = NoTireCall
    /\ stint_call = NoStintCall
    /\ lookup_call = NoLookupCall
    /\ comb_call = NoCombCall
    /\ \E rs \in EvalRaceStates : \E strategy_combo \in EvalCandidates(rs) :
         eval_call \in [strategy_combo : {strategy_combo}, rs : {rs},
                        consider_weather : BOOLEAN, safety_car_prob : {0, 15},
                        pit_tape : PitTapes, stints : {<<>>}, fuel_loads : {<<>>},
                        stint_results : {<<>>}, pit_times : {<<>>}, result : {None}]
    /\ compare_call = NoCompareCall
    /\ optimal_call = NoOptimalCall
    /\ conf_call = NoConfCall

\* The stints the evaluation reaches: none when the first _simulate_stint
\* raises on race_state.weather_data.get.
StintsReached(strategy_combo, rs) ==
    IF "get" \notin DOMAIN rs.weather_data THEN <<>>
    ELSE EvaluatedStints(1, rs.current_lap, strategy_combo, rs)

\* One call, with what it handed to _simulate_stint and to the tire model.
Evaluated(call, stints) ==
    [call EXCEPT
       !.stints = stints,
       !.fuel_loads = RaceFuelLoads(stints, call.rs.total_laps),
       !.stint_results = StintResults(stints, call.rs, call.consider_weather),
       !.pit_times = PitStopTimes(stints, call.strategy_combo, call.rs,
                         call.safety_car_prob,
                         PitDrawsOf(call.pit_tape, call.strategy_combo, call.rs)),
       !.result = Some(SimulateSingleStrategy(call.strategy_combo, call.rs,
                           call.consider_weather, call.safety_car_prob,
                           PitDrawsOf(call.pit_tape, call.strategy_combo, call.rs)))]

EvalApply ==
    /\ eval_call.result = None
    /\ eval_call' = Evaluated(eval_call, StintsReached(eval_call.strategy_combo, eval_call.rs))
    /\ UNCHANGED <<simVars, gen_call, tire_call, stint_call, lookup_call,
                   comb_call, compare_call, optimal_call, conf_call>>

NextEval == EvalApply

SpecEval == InitEval /\ [][NextEval]_vars

-----------------------------------------------------------------------------
(* The confidence score alone: _calculate_strategy_confidence on the       *)
(* candidates the generator produces for a race of ConfLaps laps.          *)

ConfInputs(current_lap) ==
    [strategy : {GenerateRandomStrategy(num_stops, current_lap, ConfLaps,
                                        DrawsFrom(tape, 1, DrawsNeeded(num_stops))) :
                    num_stops \in 0..ConfMaxStops, tape \in Tapes},
     current_lap : {current_lap}, total_laps : {ConfLaps}, result : {None}]

InitConf ==
    /\ Fresh
    /\ gen_call = NoGenCall
    /\ tire_call = NoTireCall
    /\ stint_call = NoStintCall
    /\ lookup_call = NoLookupCall
    /\ comb_call = NoCombCall
    /\ eval_call = NoEvalCall
    /\ compare_call = NoCompareCall
    /\ optimal_call = NoOptimalCall
    /\ \E current_lap \in 1..ConfLaps : conf_call \in ConfInputs(current_lap)

ConfApply ==
    /\ conf_call.result = None
    /\ conf_call' = [conf_call EXCEPT !.result =
                       Some(CalculateStrategyConfidence(conf_call.strategy,
                                [current_lap |-> conf_call.current_lap,
                                 total_laps |-> conf_call.total_laps]))]
    /\ UNCHANGED <<simVars, gen_call, tire_call, stint_call, lookup_call,
                   comb_call, eval_call, compare_call, optimal_call>>

NextConf == ConfApply

SpecConf == InitConf /\ [][NextConf]_vars

-----------------------------------------------------------------------------
(* The comparison alone: analyze_strategy_comparison on the lists           *)
(* simulate_strategies returns: the demo list, and the ranked lists of the  *)
(* strategies evaluated on a race state whose weather_data is a mapping.    *)

CompareMaxLen == 2

CompareRaceStates ==
    [current_lap : 1..2, total_laps : {EvalLaps}, weather_data : {[get |-> TRUE]}]

\* The evaluated candidates of one batch of a race state.
CompareCandidates(rs) ==
    {GenerateRandomStrategy(num_stops, rs.current_lap, rs.total_laps,
                            DrawsFrom(tape, 1, DrawsNeeded(num_stops))) :
        num_stops \in 0..1, tape \in Tapes}

\* What simulate_strategies returns for a batch whose evaluations gave the
\* results of `batch`, in completion order.
Simulated(batch, rs, pit_tape) ==
    RankedList([k \in 1..Len(batch) |->
        SimulateSingleStrategy(batch[k], rs, FALSE, 0, PitDrawsOf(pit_tape, batch[k], rs))])

InitCompare ==
    /\ Fresh
    /\ gen_call = NoGenCall
    /\ tire_call = NoTireCall
    /\ stint_call = NoStintCall
    /\ lookup_call = NoLookupCall
    /\ comb_call = NoCombCall
    /\ eval_call = NoEvalCall
    /\ \/ compare_call = [strategies |-> GenerateDemoStrategies, result |-> None]
       \/ \E rs \in CompareRaceStates : \E n \in 0..CompareMaxLen :
            \E batch \in [1..n -> CompareCandidates(rs)] : \E pit_tape \in PitTapes :
              compare_call = [strategies |-> Simulated(batch, rs, pit_tape),
                              result |-> None]
    /\ optimal_call = NoOptimalCall
    /\ conf_call = NoConfCall

CompareApply ==
    /\ compare_call.result = None
    /\ compare_call' =
         [compare_call EXCEPT !.result = Some(AnalyzeStrategyComparison(compare_call.strategies))]
    /\ UNCHANGED <<simVars, gen_call, tire_call, stint_call, lookup_call,
                   comb_call, eval_call, optimal_call, conf_call>>

NextCompare == CompareApply

SpecCompare == InitCompare /\ [][NextCompare]_vars

-----------------------------------------------------------------------------
(* The stint-length search alone: get_optimal_stint_length.                *)

\* max_pace_loss runs over 0.0, 0.4, ..., in units of 1 / Scale.
OptimalLossSteps == 16
MaxPaceLosses == {4 * k * (Scale \div 10) : k \in 0..OptimalLossSteps}

OptimalInputs ==
    [compound : TireCompound, max_pace_loss : MaxPaceLosses, track_temp : TrackTemps,
     track_abrasiveness : Abrasiveness, result : {None}]

InitOptimal ==
    /\ Fresh
    /\ gen_call = NoGenCall
    /\ tire_call = NoTireCall
    /\ stint_call = NoStintCall
    /\ lookup_call = NoLookupCall
    /\ comb_call = NoCombCall
    /\ eval_call = NoEvalCall
    /\ compare_call = NoCompareCall
    /\ optimal_call \in OptimalInputs
    /\ conf_call = NoConfCall

OptimalApply ==
    /\ optimal_call.result = None
    /\ optimal_call' =
         [optimal_call EXCEPT !.result =
             Some(GetOptimalStintLength(optimal_call.compound, optimal_call.max_pace_loss,
                      optimal_call.track_temp, optimal_call.track_abrasiveness))]
    /\ UNCHANGED <<simVars, gen_call, tire_call, stint_call, lookup_call,
                   comb_call, eval_call, compare_call, conf_call>>

NextOptimal == OptimalApply

SpecOptimal == InitOptimal /\ [][NextOptimal]_vars

-----------------------------------------------------------------------------
(* Properties of simulate_strategies (under Spec).                         *)

\* The call under way has returned a list to its caller.
Returned == pc = "done" /\ outcome.kind = "returned"

\* C1: every call to simulate_strategies, whatever the race state (valid or
\* invalid), returns a list that is sorted ascending by total_time and has at
\* most 20 entries.
C1_ReturnedListSortedTop20 ==
    Returned =>
        /\ Len(outcome.value) <= TopN
        /\ \A i, j \in 1..Len(outcome.value) :
              i < j => outcome.value[i].total_time <= outcome.value[j].total_time

\* C2: a call with a race state for which is_valid() is false (a lap counter
\* that is not positive, no drivers, or no data-quality flag set) returns the
\* fixed list of the five demo strategies: never an empty list, never an
\* exception.
C2_InvalidStateGivesDemoList ==
    ( /\ pc = "done"
      /\ \/ race_state.current_lap <= 0
         \/ race_state.total_laps <= 0
         \/ race_state.drivers = {}
         \/ \A k \in DOMAIN race_state.data_quality : ~race_state.data_quality[k] )
    => /\ outcome.kind = "returned"
       /\ Len(outcome.value) = 5
       /\ [k \in 1..5 |-> outcome.value[k].strategy_id]
            = <<"demo_1_stop", "demo_2_stop", "demo_aggressive",
                "demo_conservative", "demo_weather">>
       /\ [k \in 1..5 |-> outcome.value[k].num_stops] = <<1, 2, 2, 1, 3>>

\* A call made with positive lap counters and a data-quality flag set but no
\* driver has returned five strategies.
C2_NoDriversGetDemoList ==
    /\ Returned
    /\ race_state.current_lap > 0
    /\ race_state.total_laps > 0
    /\ race_state.data_quality.weather
    /\ race_state.drivers = {}
    /\ Len(outcome.value) = 5

\* The list is the fixed demo list (told by its stop laps, which no simulated
\* candidate of the explored races has).
IsDemoList(value) ==
    /\ Len(value) = Len(GenerateDemoStrategies)
    /\ \A k \in DOMAIN value : value[k].stop_laps = GenerateDemoStrategies[k].stop_laps

\* C16: the demo fallback is taken exactly when the race state lacks the
\* minimum data: a call made with current_lap >= 0, total_laps > 0 and at least
\* one driver with received data is simulated, not answered with the demo list.
C16_SufficientDataIsSimulated ==
    ( /\ pc = "done"
      /\ race_state.current_lap >= 0
      /\ race_state.total_laps > 0
      /\ race_state.drivers # {}
      /\ \E k \in DOMAIN race_state.data_quality : race_state.data_quality[k] )
    => ~(outcome.kind = "returned" /\ IsDemoList(outcome.value))

\* C3: simulate_strategies never lets a failure escape to its caller: for every
\* race state and every num_simulations >= 0, max_stops and safety-car
\* probability, the call returns a ranked list of at most 20 strategies or the
\* demo list, and raises no exception.
C3_NoFailureEscapes ==
    (pc = "done" /\ args.num_simulations >= 0) =>
        /\ outcome.kind = "returned"
        /\ Len(outcome.value) <= TopN

\* C4: for a valid race state whose weather snapshot carries no track
\* temperature, the evaluator falls back on its defaults and every evaluated
\* candidate yields a RaceStrategy instead of failing.
C4_MissingWeatherTolerated ==
    ( /\ IsValid(race_state)
      /\ race_state.weather_data.track_temperature = None )
    => \A i \in Finished : future_result[i] # None

\* C8: when the evaluation of one candidate of a call fails (its result is
\* None), the call still returns, every other candidate of the call has been
\* evaluated, and its result is in the returned list unless the list is full.
C8_FailureIsolated ==
    (pc = "done" /\ \E i \in Finished : future_result[i] = None)
    => /\ outcome.kind = "returned"
       /\ \A j \in Futures :
             /\ future_state[j] = "finished"
             /\ future_result[j] # None =>
                  \/ \E k \in 1..Len(outcome.value) : outcome.value[k] = future_result[j]
                  \/ Len(outcome.value) = TopN

\* A returned batch in which one candidate failed and another one's result is
\* in the returned list.
C8_FailedAndRankedTogether ==
    /\ Returned
    /\ \E i \in Finished : future_result[i] = None
    /\ \E j \in Finished :
          /\ future_result[j] # None
          /\ \E k \in 1..Len(outcome.value) : outcome.value[k] = future_result[j]

C17_RankedAfterAllCollected ==
    [][(pc = "as_completed" /\ pc' = "done") =>
          /\ Finished = Futures
          /\ Running = {}
          /\ Pending = {}
          /\ completed = <<>>
          /\ Len(strategies) = Cardinality({i \in Futures : future_result[i] # None})
          /\ outcome' = [kind |-> "returned", value |-> RankedList(strategies), raised |-> NoExc]]_vars

\* A batch of at least two evaluations has been ranked and returned.
C17_BatchOfSeveralRanked ==
    /\ Returned
    /\ Cardinality(Futures) >= 2
    /\ Finished = Futures
    /\ completed = <<>>

\* C18: at most 4 evaluations are in progress at once, and the shared result
\* list is appended to only by the orchestrating thread: a step of a pool
\* thread (one that changes the state of a future during the call) leaves the
\* list alone, and the list only ever grows by the head of the completed
\* results, taken by the as_completed loop.
C18_FourWorkersOneWriter ==
    [][/\ Cardinality(Running) <= MaxWorkers
       /\ Cardinality(Running') <= MaxWorkers
       /\ (pc = "as_completed" /\ future_state' # future_state) => strategies' = strategies
       /\ (pc = "as_completed" /\ strategies' # strategies) =>
             /\ completed # <<>>
             /\ strategies' = Append(strategies, Head(completed))
             /\ completed' = Tail(completed)
             /\ future_state' = future_state]_vars

\* The pool is full: 4 evaluations are running and another one waits.
C18_PoolFullOneWaiting ==
    /\ pc = "as_completed"
    /\ Cardinality(Running) = MaxWorkers
    /\ Pending # {}

\* C19: a call to simulate_strategies leaves the race state and the parameter
\* tables of the tire model unchanged: no step of the call, from its start to
\* its return, at any point during the evaluations, changes either of them,
\* and the tables are still those the tire model was built with.
C19_CallLeavesInputsAlone ==
    [][/\ (pc # "idle" \/ pc' # "idle") =>
             /\ race_state' = race_state
             /\ tire_model' = tire_model
       /\ tire_model' = NewTireModel]_vars

\* A call has evaluated a candidate that reads the race state and returned.
C19_EvaluatedAndReturned ==
    /\ Returned
    /\ IsValid(race_state)
    /\ \E i \in Finished : strategy_combinations[i].num_stops >= 1
    /\ tire_model = NewTireModel

-----------------------------------------------------------------------------
(* Termination of simulate_strategies (under SpecLive).                    *)

\* C20: every call with num_simulations >= 0 and max_stops >= 0 terminates: the
\* padding loop ends with exactly num_simulations candidates, every submitted
\* evaluation eventually completes or fails, and the call eventually returns
\* a list.
C20_CallTerminates ==
    /\ [](pc = "as_completed" /\ args.num_simulations >= 0 =>
             Len(strategy_combinations) = args.num_simulations)
    /\ []((pc = "done" /\ args.num_simulations >= 0 /\ args.max_stops >= 0) =>
             outcome.kind = "returned")
    /\ (pc = "as_completed") ~> (Returned /\ Finished = Futures)

\* A call whose candidates all came from the padding loop has returned.
C20_PaddedBatchReturned ==
    /\ Returned
    /\ IsValid(race_state)
    /\ args.max_stops >= 1
    /\ args.num_simulations >= 1
    /\ args.num_simulations < args.max_stops + 1
    /\ Len(strategy_combinations) = args.num_simulations
    /\ Finished = Futures

-----------------------------------------------------------------------------
(* Properties of the generator (under SpecGen).                            *)

\* C5: every candidate the generator produces, for any current_lap, total_laps
\* and num_stops, has strictly increasing stop_laps, each strictly between
\* current_lap and total_laps.
C5_StopLapsInsideRace ==
    gen_call.result # None =>
        LET stop_laps == gen_call.result[1].stop_laps
        IN  /\ \A i, j \in 1..Len(stop_laps) : i < j => stop_laps[i] < stop_laps[j]
            /\ \A i \in 1..Len(stop_laps) :
                  gen_call.current_lap < stop_laps[i] /\ stop_laps[i] < gen_call.total_laps

\* C6: every candidate the generator produces has a compound sequence of
\* exactly num_stops + 1 entries, each of them a compound.
C6_CompoundPerStint ==
    gen_call.result # None =>
        /\ gen_call.result[1].num_stops = gen_call.num_stops
        /\ Len(gen_call.result[1].tire_sequence) = gen_call.num_stops + 1
        /\ \A i \in 1..Len(gen_call.result[1].tire_sequence) :
              gen_call.result[1].tire_sequence[i] \in TireCompound

\* Two stops were asked for, they fell on the same lap, and the candidate has
\* three compounds.
C6_ThreeCompoundsForMergedStops ==
    /\ gen_call.result # None
    /\ gen_call.num_stops = 2
    /\ Len(gen_call.result[1].stop_laps) = 1
    /\ Len(gen_call.result[1].tire_sequence) = 3

\* C7: when total_laps <= current_lap the generator skips the stop laps and
\* returns a 0-stop candidate (empty stop_laps, stop count 0) whatever
\* num_stops was asked for, so that nothing downstream divides by the zero or
\* negative remaining distance.
C7_NoStopsWhenNoLapsRemain ==
    (gen_call.result # None /\ gen_call.total_laps <= gen_call.current_lap) =>
        /\ gen_call.result[1].stop_laps = <<>>
        /\ gen_call.result[1].num_stops = 0
        /\ CalculateStrategyConfidence(gen_call.result[1],
               [current_lap |-> gen_call.current_lap,
                total_laps |-> gen_call.total_laps]).raised = NoExc

\* C22: in every generated candidate the first stint's compound is Medium or
\* Hard; with at least one stop the compound of the final stint (the last
\* entry of the sequence) is Soft or Medium; every other stint's compound is
\* one of the three dry compounds.
C22_CompoundsByStintPosition ==
    gen_call.result # None =>
        LET tire_sequence == gen_call.result[1].tire_sequence
        IN  /\ tire_sequence[1] \in {MEDIUM, HARD}
            /\ gen_call.num_stops >= 1 =>
                  tire_sequence[Len(tire_sequence)] \in {SOFT, MEDIUM}
            /\ \A i \in 2..(Len(tire_sequence) - 1) :
                  tire_sequence[i] \in {SOFT, MEDIUM, HARD}

\* C23: in every generated candidate the number of stop laps equals the stop
\* count: a candidate generated for num_stops = k carries exactly k distinct
\* stop laps (and so does the RaceStrategy that copies both fields from it).
C23_StopLapPerStop ==
    gen_call.result # None =>
        /\ gen_call.result[1].num_stops = gen_call.num_stops
        /\ Len(gen_call.result[1].stop_laps) = gen_call.result[1].num_stops
        /\ Cardinality({gen_call.result[1].stop_laps[i] :
                           i \in 1..Len(gen_call.result[1].stop_laps)})
             = gen_call.num_stops

-----------------------------------------------------------------------------
(* Properties of the tire model (under SpecTire).                          *)

\* C10: for every compound and every tire age >= 0, with any track
\* temperature, fuel load and abrasiveness, calculate_tire_performance returns
\* a grip_level g with 0.1 <= g <= 1.0 (grip_level is kept as 3 * Scale * g).
C10_GripInUnitRange ==
    tire_call.result # None =>
        /\ 10 * tire_call.result[1].grip_level >= 3 * Scale
        /\ tire_call.result[1].grip_level <= 3 * Scale

\* C12: for every compound, with track temperature, fuel load, abrasiveness
\* and wetness held fixed, a larger age_laps gives a strictly larger total
\* degradation and a strictly larger estimated_pace_loss.
C12_PaceLossGrowsWithAge ==
    tire_call.result # None =>
        \A later_age \in (tire_call.age_laps + 1)..MaxAge :
            LET later == CalculateTirePerformance(tire_call.compound, later_age,
                             tire_call.track_temp, tire_call.fuel_load,
                             tire_call.abrasiveness, tire_call.is_wet)
            IN  /\ later.total_degradation > tire_call.result[1].total_degradation
                /\ later.estimated_pace_loss > tire_call.result[1].estimated_pace_loss

\* C13: when is_wet is true and the compound is Soft, Medium or Hard,
\* calculate_tire_performance substitutes Intermediate before any computation:
\* the result is the one of Intermediate, with compound Intermediate and
\* cliff_point 20; Intermediate and Wet are never substituted, and with is_wet
\* false no compound is substituted.
C13_WetSubstitution ==
    tire_call.result # None =>
        IF tire_call.is_wet /\ tire_call.compound \in {SOFT, MEDIUM, HARD}
        THEN /\ tire_call.result[1].compound = INTERMEDIATE
             /\ tire_call.result[1].cliff_point = 20
             /\ tire_call.result[1] =
                  CalculateTirePerformance(INTERMEDIATE, tire_call.age_laps,
                      tire_call.track_temp, tire_call.fuel_load,
                      tire_call.abrasiveness, FALSE)
        ELSE /\ tire_call.result[1].compound = tire_call.compound
             /\ tire_call.result[1].cliff_point =
                  CASE tire_call.compound = SOFT -> 15
                    [] tire_call.compound = MEDIUM -> 25
                    [] tire_call.compound = HARD -> 35
                    [] tire_call.compound = INTERMEDIATE -> 20
                    [] tire_call.compound = WET -> 18

\* A Soft tire on a wet track was computed as an Intermediate.
C13_SoftComputedAsIntermediate ==
    /\ tire_call.result # None
    /\ tire_call.is_wet
    /\ tire_call.compound = SOFT
    /\ tire_call.result[1].compound = INTERMEDIATE
    /\ tire_call.result[1].cliff_point = 20

\* The call of claim C14: a Hard tire of age 40 at 30 degrees, fuel load 50,
\* abrasiveness 1.0, on a dry track.
HardAtForty ==
    /\ tire_call.compound = HARD
    /\ tire_call.age_laps = 40
    /\ tire_call.track_temp = 30
    /\ tire_call.fuel_load = <<50, 1>>
    /\ tire_call.abrasiveness = AbrUnit
    /\ ~tire_call.is_wet

\* C14: for a Hard tire of age 40 at track temperature 30, fuel load 50,
\* abrasiveness 1.0 and a dry track, the cliff point is 35, the total
\* degradation is 1.7 (0.03 * 40 + (40 - 35) * 0.1) and the estimated pace loss
\* is 2.2825 (0.6 + 1.7 - 0.035 * 0.5), both in millionths here.
C14_HardAtFortyValues ==
    (HardAtForty /\ tire_call.result # None) =>
        /\ tire_call.result[1].cliff_point = 35
        /\ tire_call.result[1].total_degradation = 1700000
        /\ tire_call.result[1].estimated_pace_loss = 2282500

\* The call of claim C14 has been computed, past the cliff point.
C14_HardAtFortyComputed ==
    /\ HardAtForty
    /\ tire_call.result # None
    /\ tire_call.result[1].compound = HARD
    /\ tire_call.result[1].age_laps > tire_call.result[1].cliff_point

-----------------------------------------------------------------------------
(* Properties of the stint predictor (under SpecStint).                    *)

C26_CliffRiskOfOwnCompound ==
    stint_call.result # None =>
        stint_call.cliff_risk =
            10 * Cardinality({lap \in 1..stint_call.stint_length :
                                 lap > cliff_points[stint_call.compound]})

-----------------------------------------------------------------------------
(* Properties of the compound-parameter lookups (under SpecLookup).        *)

\* The five names of the defined compounds, whatever their case.
DefinedCompound(key) == Lower(key.name) \in {Spelling[c] : c \in TireCompound}

\* C15: a compound outside the five defined ones is rejected by every
\* compound-parameter lookup: the lookup raises, and none returns parameters.
C15_UnknownCompoundRejected ==
    (lookup_call.result # None /\ ~DefinedCompound(lookup_call.compound)) =>
        /\ lookup_call.result[1].raised # NoExc
        /\ lookup_call.result[1].value = None

-----------------------------------------------------------------------------
(* Properties of _generate_strategy_combinations (under SpecComb).         *)

\* C21: for num_simulations >= 0 and max_stops >= 0 the generator returns
\* exactly num_simulations candidates, every candidate has a stop count in
\* 0..max_stops, and every stop count in 0..max_stops is the stop count of at
\* least min(num_simulations // (max_stops + 1), 100) candidates; the others
\* are the padding, of drawn stop counts.
C21_StratifiedThenPadded ==
    comb_call.result # None =>
        /\ comb_call.result[1].raised = NoExc
        /\ Len(comb_call.result[1].combinations) = comb_call.num_simulations
        /\ \A i \in 1..Len(comb_call.result[1].combinations) :
              comb_call.result[1].combinations[i].num_stops \in 0..comb_call.max_stops
        /\ \A k \in 0..comb_call.max_stops :
              Cardinality({i \in 1..Len(comb_call.result[1].combinations) :
                              comb_call.result[1].combinations[i].num_stops = k})
                >= Min(comb_call.num_simulations \div (comb_call.max_stops + 1), 100)

\* A batch was generated in which the cap of 100 per stop count applied and
\* the padding loop supplied the rest.
C21_CappedAndPadded ==
    /\ comb_call.result # None
    /\ comb_call.num_simulations \div (comb_call.max_stops + 1) > 100
    /\ Len(comb_call.result[1].combinations) = comb_call.num_simulations

-----------------------------------------------------------------------------
(* Properties of _calculate_strategy_confidence (under SpecConf).          *)

\* The number of stop laps of the call whose relative position
\* (stop_lap - current_lap) / remaining_laps is < 0.1 or > 0.9, for
\* remaining_laps > 0.
ExtremeStops ==
    Cardinality({j \in 1..Len(conf_call.strategy.stop_laps) :
        \/ 10 * (conf_call.strategy.stop_laps[j] - conf_call.current_lap)
             < conf_call.total_laps - conf_call.current_lap
        \/ 10 * (conf_call.strategy.stop_laps[j] - conf_call.current_lap)
             > 9 * (conf_call.total_laps - conf_call.current_lap)})

MediumAppears ==
    \E j \in 1..Len(conf_call.strategy.tire_sequence) :
        conf_call.strategy.tire_sequence[j] = MEDIUM

Clamped(confidence) == Max(10, Min(100, confidence))

\* C24 (as stated): the confidence equals
\*   clamp(0.8 - 0.1 * [stop count > 2] - 0.1 * (number of extreme stop laps)
\*             + 0.1 * [Medium appears anywhere in the sequence], 0.1, 1.0)
\* for every candidate, 0-stop candidates included (in hundredths here).
C24_MediumBonusAnywhere ==
    (conf_call.result # None /\ conf_call.result[1].raised = NoExc) =>
        conf_call.result[1].value =
            Clamped(80 - (IF conf_call.strategy.num_stops > 2 THEN 10 ELSE 0)
                       - 10 * ExtremeStops
                       + (IF MediumAppears THEN 10 ELSE 0))

\* C24 (amended): the same, the Medium bonus being given only to a sequence
\* of at least two compounds.
C24_MediumBonusForSeveralStints ==
    (conf_call.result # None /\ conf_call.result[1].raised = NoExc) =>
        conf_call.result[1].value =
            Clamped(80 - (IF conf_call.strategy.num_stops > 2 THEN 10 ELSE 0)
                       - 10 * ExtremeStops
                       + (IF MediumAppears /\ Len(conf_call.strategy.tire_sequence) >= 2
                          THEN 10 ELSE 0))

\* A candidate without stops that runs on Medium got the base confidence 0.8.
C24_SingleMediumStintAtBase ==
    /\ conf_call.result # None
    /\ conf_call.strategy.tire_sequence = <<MEDIUM>>
    /\ conf_call.result[1].raised = NoExc
    /\ conf_call.result[1].value = 80

-----------------------------------------------------------------------------
(* Properties of _simulate_single_strategy (under SpecEval).               *)

EvalReturned == eval_call.result # None /\ eval_call.result[1] # None

\* The track is taken for wet: consider_weather and a true rainfall entry.
EvalIsWet ==
    eval_call.consider_weather /\ MappingGet(eval_call.rs.weather_data, "rainfall", FALSE)

\* The tire model's prediction for an evaluated stint.
EvalStintPerformance(st) ==
    PredictStintPerformance(st.compound, st.stint_length,
        StartingFuel(st.stint_start_lap, eval_call.rs.total_laps),
        MappingGet(eval_call.rs.weather_data, "track_temperature", Some(30))[1],
        track_abrasiveness, EvalIsWet)

RECURSIVE SumPaceLoss(_)
SumPaceLoss(stint_performance) ==
    IF stint_performance = <<>> THEN 0
    ELSE Head(stint_performance).estimated_pace_loss
           + SumPaceLoss(Tail(stint_performance))

\* The 0.5 of risk per lap of poor grip, in tenths.
GripRisk(stint_performance) ==
    5 * Cardinality({j \in 1..Len(stint_performance) :
                        10 * stint_performance[j].grip_level < 4 * 3 * Scale})

\* The laps of an evaluated stint that run on the wrong tire in the rain.
WrongTireLaps(st) ==
    IF EvalIsWet /\ st.compound \notin {INTERMEDIATE, WET} THEN st.stint_length ELSE 0

\* The same call on a race state whose weather has no rainfall entry.
WithoutRainfall(rs) ==
    [rs EXCEPT !.weather_data =
        [key \in DOMAIN rs.weather_data \ {"rainfall"} |-> rs.weather_data[key]]]

RECURSIVE SumSeq(_)
SumSeq(seq) == IF seq = <<>> THEN 0 ELSE Head(seq) + SumSeq(Tail(seq))

\* The stop laps that end a stint of positive length: the stint starts where
\* the last stint of positive length before it ended.
RECURSIVE PositiveStopLaps(_, _)
PositiveStopLaps(j, stint_start_lap) ==
    IF j > Len(eval_call.strategy_combo.stop_laps) THEN {}
    ELSE IF eval_call.strategy_combo.stop_laps[j] - stint_start_lap <= 0
    THEN PositiveStopLaps(j + 1, stint_start_lap)
    ELSE {j} \cup PositiveStopLaps(j + 1, eval_call.strategy_combo.stop_laps[j])

-----------------------------------------------------------------------------
(* Properties of analyze_strategy_comparison (under SpecCompare).          *)

\* C29: for every non-empty list simulate_strategies can return, ranked or
\* demo, the comparison reports as best_strategy the entry of minimum
\* total_time and as worst_strategy the entry of maximum total_time, and
\* time_difference = max - min >= 0; the list is not modified.
C29_BestIsFastest ==
    (compare_call.result # None /\ compare_call.strategies # <<>>) =>
        /\ \A k \in 1..Len(compare_call.strategies) :
              /\ compare_call.result[1].best_strategy.total_time
                    <= compare_call.strategies[k].total_time
              /\ compare_call.result[1].worst_strategy.total_time
                    >= compare_call.strategies[k].total_time
        /\ compare_call.result[1].time_difference =
              compare_call.result[1].worst_strategy.total_time
                - compare_call.result[1].best_strategy.total_time
        /\ compare_call.result[1].time_difference >= 0

-----------------------------------------------------------------------------
(* Properties of get_optimal_stint_length (under SpecOptimal).             *)

\* C30: get_optimal_stint_length returns a length n with 1 <= n <= 60 such
\* that the estimated pace loss (at fuel load 50) stays within max_pace_loss
\* on every lap 1..n and, when n < 60, exceeds it on lap n + 1, for every
\* compound and every max_pace_loss.
C30_LongestStintWithinLoss ==
    optimal_call.result # None =>
        /\ optimal_call.result[1] \in 1..60
        /\ \A lap \in 1..optimal_call.result[1] :
              MidStintPaceLoss(optimal_call.compound, lap, optimal_call.track_temp,
                               optimal_call.track_abrasiveness)
                <= optimal_call.max_pace_loss
        /\ optimal_call.result[1] < 60 =>
              MidStintPaceLoss(optimal_call.compound, optimal_call.result[1] + 1,
                               optimal_call.track_temp, optimal_call.track_abrasiveness)
                > optimal_call.max_pace_loss

====
